---- MODULE Spec2Model ----
(***************************************************************************)
(* The jira-logs GET handler (api/jira-logs/route.ts): identity            *)
(* resolution with its in-memory cache, the paginated issue search, the    *)
(* per-issue worklog fetches run by mapWithConcurrency, and the            *)
(* normalisation of the collected worklogs into the response; and the      *)
(* signIn callback of the authentication options (lib/auth.ts), which      *)
(* decides who gets the session the handler asks for.                      *)
(*                                                                         *)
(* JavaScript runs the handler on one thread: a step of the model is the   *)
(* code between two awaits.  The tracker's answers (identity search, issue *)
(* search pages, worklog listings, failures) are chosen by the environment *)
(* when the awaited call settles.                                          *)
(***************************************************************************)
EXTENDS Integers, Sequences, FiniteSets, TLC

\* ------------------------------------------------------------------ bounds
\* issues the issue search returns in total, in Spec
MaxIssues == 2
\* upstream worklogs the tracker returns in total during one request, in Spec
MaxWorklogs == 2
\* issues the issue search returns in total, in SpecPool
MaxPoolIssues == 7
\* direct callers of resolveAccountIdByEmail, in SpecCache
MaxCallers == 2
\* advances of the wall clock, in SpecCache
MaxTicks == 3
\* issues the issue search returns in total, in SpecSearch
MaxSearchIssues == 2
\* pages the issue search answers a request with, in SpecSearch
MaxPages == 2
\* the latest calendar day a request names, in SpecDates (days 0..MaxDay)
MaxDay == 2
\* top-level blocks of a structured comment, in SpecComment
MaxBlocks == 2

\* ------------------------------------------------------- program constants
ACCOUNT_ID_TTL_MS == 5 * 60 * 1000
\* the limit GET passes to mapWithConcurrency
CONCURRENCY == 6
\* the status of a response built by NextResponse.json(body) without init
HTTP_OK == 200
\* the catch block's status when the error carries no upstream response
HTTP_INTERNAL == 500
\* the status of the answer to a request without session
HTTP_UNAUTHORIZED == 401
\* Date arithmetic: one calendar day (no DST transition in the modelled zone)
MsPerDay == 24 * 60 * 60 * 1000

\* ------------------------------------------------------------------ values
\* JavaScript null / undefined, where the other values are strings
Null == "null"
\* A JavaScript number is <<n>>, and NaN is <<>>; an optional number of the
\* tracker's JSON is <<n>> when present and <<>> when the field is missing.
Num(n) == <<n>>
NaN == <<>>
IsNaN(x) == x = <<>>
Val(x) == x[1]

Min(a, b) == IF a <= b THEN a ELSE b

SeqsUpTo(S, n) == UNION {[1..k -> S] : k \in 0..n}

RECURSIVE SumLens(_)
SumLens(s) == IF s = <<>> THEN 0 ELSE Len(Head(s)) + SumLens(Tail(s))

\* the emails resolved (already lower-cased and trimmed)
Emails == {"e1", "e2"}

\* what GET /rest/api/3/user/search answers: a list of users (maxResults 2)
IdentityData == {<<>>, <<[accountId |-> "acc1"]>>,
                 <<[accountId |-> "acc1"], [accountId |-> "acc2"]>>}

\* an axios failure: no response at all (network error, timeout), or a
\* response whose status axios rejects (validateStatus: outside 2xx)
AxiosErrors == {[hasResponse |-> FALSE, status |-> 0, data |-> Null,
                 message |-> "Network Error"],
                [hasResponse |-> TRUE, status |-> 404, data |-> "Not Found",
                 message |-> "Request failed with status code 404"]}

\* the issues a search page may list: an issue with a summary, one without,
\* and a malformed one without a key
IssueUniverse == {[key |-> "A", summary |-> "sA"],
                  [key |-> "B", summary |-> Null],
                  [key |-> Null, summary |-> "sX"]}
PoolIssueUniverse == {[key |-> "A", summary |-> "sA"]}

\* the continuation tokens a search page may carry
PageTokens == {"t1", "t2"}

\* ------------------------------------------------------------- date bounds
\* A calendar date string YYYY-MM-DD is modelled by its day number d; new
\* Date("YYYY-MM-DD") is UTC midnight of that day.  tz is the server's offset
\* from UTC in ms; getFullYear/getMonth/getDate read the local date and
\* new Date(y, m, d) is local midnight.
ParseDate(d) == d * MsPerDay
LocalDay(ms, tz) == (ms + tz) \div MsPerDay
LocalMidnight(day, tz) == day * MsPerDay - tz
dateOnlyISO(ms, tz) == LocalDay(ms, tz)

\* end = new Date(y, m, endBase.getDate()): the end date's own midnight
getDateRangeBoundsEndSameDay(startDateStr, endDateStr, tz) ==
  LET startBase == ParseDate(startDateStr)
      endBase   == ParseDate(endDateStr)
      start     == LocalMidnight(LocalDay(startBase, tz), tz)
      end       == LocalMidnight(LocalDay(endBase, tz), tz)
  IN [startISO |-> dateOnlyISO(start, tz), endISO |-> dateOnlyISO(end, tz),
      startMs |-> start, endMs |-> end]

getDateRangeBounds(startDateStr, endDateStr, tz) ==
  LET startBase == ParseDate(startDateStr)
      endBase   == ParseDate(endDateStr)
      start     == LocalMidnight(LocalDay(startBase, tz), tz)
      end       == LocalMidnight(LocalDay(endBase, tz) + 1, tz)
  IN [startISO |-> dateOnlyISO(start, tz), endISO |-> dateOnlyISO(end, tz),
      startMs |-> start, endMs |-> end]

\* startOfTodayISO(): the local calendar date of now
startOfTodayISO(now, tz) == LocalDay(now, tz)

\* startDateParam || startOfTodayISO()
DateOrToday(param, now, tz) ==
  IF param # <<>> THEN param[1] ELSE startOfTodayISO(now, tz)

\* before line 305 ran
NoWindow == [built |-> FALSE]

\* the (startDate, endDate) pairs and the server zones of the modelled requests
RequestDates == {<<1, 1>>}
TzOffsets == {0}

\* the date parameters and the server zones of SpecDates: every day up to
\* MaxDay or no parameter; UTC-5, UTC and UTC+7
MsPerHour == 60 * 60 * 1000
DateParams == {<<>>} \cup {Num(d) : d \in 0..MaxDay}
DateZones == {-5 * MsPerHour, 0, 7 * MsPerHour}

\* Date.prototype.toISOString and back: the UTC calendar day and the ms in it
toISOString(ms) == [day |-> ms \div MsPerDay, msOfDay |-> ms % MsPerDay]
ISOToMs(iso) == iso.day * MsPerDay + iso.msOfDay

\* ---------------------------------------------------------------- comments
\* A text is the sequence of its characters.  A comment string is a text; a
\* structured comment (Atlassian Document Format) is a tree: the document's
\* content lists blocks, a block's content lists nodes, and a node carries a
\* text, or a content of its own (a list item holding a paragraph) whose
\* nodes carry the text.  A missing field has its `has` flag FALSE.
TextNode(t) == [hasText |-> TRUE, text |-> t, content |-> <<>>]
BareNode == [hasText |-> FALSE, text |-> <<>>, content |-> <<>>]
ParentNode(nodes) == [hasText |-> FALSE, text |-> <<>>, content |-> nodes]

BlockOf(nodes) == [hasContent |-> TRUE, content |-> nodes]
BareBlock == [hasContent |-> FALSE, content |-> <<>>]

NoComment == [k |-> "absent", str |-> <<>>, hasContent |-> FALSE, content |-> <<>>]
NullComment == [k |-> "null", str |-> <<>>, hasContent |-> FALSE, content |-> <<>>]
StringComment(t) == [k |-> "string", str |-> t, hasContent |-> FALSE, content |-> <<>>]
Adf(blocks) == [k |-> "adf", str |-> <<>>, hasContent |-> TRUE, content |-> blocks]
BareAdf == [k |-> "adf", str |-> <<>>, hasContent |-> FALSE, content |-> <<>>]

\* the blocks of the modelled documents: paragraphs of text nodes (texts "a",
\* "b", " a", " " and ""), a hard break, a block without content, and a list
\* whose item holds the text "c"
BlockUniverse ==
  {BareBlock,
   BlockOf(<<>>),
   BlockOf(<<TextNode(<<"a">>)>>),
   BlockOf(<<TextNode(<<"a">>), TextNode(<<"b">>)>>),
   BlockOf(<<TextNode(<<" ", "a">>)>>),
   BlockOf(<<TextNode(<<" ">>)>>),
   BlockOf(<<TextNode(<<>>), BareNode, TextNode(<<"b">>)>>),
   BlockOf(<<ParentNode(<<TextNode(<<"c">>)>>)>>)}

CommentUniverse ==
  {NoComment, NullComment, BareAdf,
   StringComment(<<>>), StringComment(<<"a">>), StringComment(<<" ", "a", " ">>)}
  \cup {Adf(blocks) : blocks \in SeqsUpTo(BlockUniverse, MaxBlocks)}

\* the function's result: a string is <<text>>, null is <<>>
Text(t) == <<t>>
NullText == <<>>

\* Array.prototype.join
RECURSIVE join(_, _)
join(texts, sep) ==
  IF texts = <<>> THEN <<>>
  ELSE IF Len(texts) = 1 THEN texts[1]
  ELSE texts[1] \o sep \o join(Tail(texts), sep)

\* String.prototype.trim
RECURSIVE trimStart(_)
trimStart(t) == IF t # <<>> /\ Head(t) = " " THEN trimStart(Tail(t)) ELSE t

RECURSIVE trimEnd(_)
trimEnd(t) ==
  IF t # <<>> /\ t[Len(t)] = " " THEN trimEnd(SubSeq(t, 1, Len(t) - 1)) ELSE t

trim(t) == trimEnd(trimStart(t))

\* for (const item of block.content) if (item.text) texts.push(item.text)
RECURSIVE ItemTexts(_)
ItemTexts(items) ==
  IF items = <<>> THEN <<>>
  ELSE (IF Head(items).hasText /\ Head(items).text # <<>>
        THEN <<Head(items).text>> ELSE <<>>) \o ItemTexts(Tail(items))

\* for (const block of comment.content) if (block.content && ...) ...
RECURSIVE BlockTexts(_)
BlockTexts(blocks) ==
  IF blocks = <<>> THEN <<>>
  ELSE (IF Head(blocks).hasContent THEN ItemTexts(Head(blocks).content)
        ELSE <<>>) \o BlockTexts(Tail(blocks))

extractCommentText(comment) ==
  IF comment.k \in {"absent", "null"} THEN NullText
  ELSE IF comment.k = "string"
       THEN (IF comment.str = <<>> THEN NullText ELSE Text(comment.str))
  ELSE IF comment.hasContent
       THEN LET texts == BlockTexts(comment.content)
                joined == trim(join(texts, <<" ">>))
            IN IF joined = <<>> THEN NullText ELSE Text(joined)
  ELSE NullText

\* ---------------------------------------------------------------- worklogs
\* The upstream worklogs of the model, relative to the request's window w: a
\* base worklog started at windowStart by acc1 with 60 s, varied in its start
\* (missing, unparseable, 1 ms before the window, last ms of the window,
\* exactly windowEnd), in its author and in its time spent.
\* The started field is missing, a string Date cannot parse, or a timestamp.
NoStarted == [k |-> "missing", ms |-> 0]
BadStarted == [k |-> "invalid", ms |-> 0]
StartedAt(ms) == [k |-> "date", ms |-> ms]

WorklogUniverse(w) ==
  {[started |-> s, author |-> "acc1", timeSpentSeconds |-> <<60>>,
    comment |-> NoComment] :
      s \in {NoStarted, BadStarted} \cup
            {StartedAt(t) : t \in {w.startMs - 1, w.startMs, w.endMs - 1, w.endMs}}}
  \cup {[started |-> StartedAt(w.startMs), author |-> a, timeSpentSeconds |-> <<60>>,
          comment |-> NoComment] :
      a \in {"acc2", Null}}
  \cup {[started |-> StartedAt(w.startMs), author |-> "acc1", timeSpentSeconds |-> t,
          comment |-> NoComment] :
      t \in {<<>>}}

\* the upstream worklogs of SpecComment: the base worklog with every comment
CommentWorklogs(w) ==
  {[started |-> StartedAt(w.startMs), author |-> "acc1", timeSpentSeconds |-> <<60>>,
    comment |-> c] : c \in CommentUniverse}

\* ------------------------------------------------------------------ sign-in
\* A string that matters for its suffix is the sequence of its parts, the
\* empty string being <<>>: "u@lmwn.com" is <<"u", "@lmwn.com">>.
LowerPart(c) ==
  CASE c = "U" -> "u"
    [] c = "@LAMUNPUNIT.COM" -> "@lamunpunit.com"
    [] c = "@Lmwn.com" -> "@lmwn.com"
    [] OTHER -> c

toLowerCase(str) == [i \in 1..Len(str) |-> LowerPart(str[i])]

endsWith(str, suffix) == str # <<>> /\ str[Len(str)] = suffix

\* the OAuth providers a sign-in may come through
Providers == {"google", "github"}

\* profile.email of a sign-in; <<>> when the profile has none
ProfileEmails == {<<>>,
                  <<"u", "@lamunpunit.com">>,
                  <<"U", "@LAMUNPUNIT.COM">>,
                  <<"u", "@lmwn.com">>,
                  <<"u", "@Lmwn.com">>,
                  <<"u", "@gmail.com">>,
                  <<"u", "@lamunpunit.com", ".example.org">>}

\* callbacks.signIn({ account, profile })
signIn(provider, email) ==
  IF provider = "google"
  THEN LET emailLowerCase == toLowerCase(email)
       IN \/ endsWith(emailLowerCase, "@lamunpunit.com")
          \/ endsWith(emailLowerCase, "@lmwn.com")
  ELSE FALSE

\* getServerSession() of a visitor who has not signed in
NoSession == [present |-> FALSE, provider |-> Null, email |-> <<>>]

\* the session of an accepted sign-in; callbacks.session lower-cases the email
SignedIn(provider, email) ==
  [present |-> TRUE, provider |-> provider, email |-> toLowerCase(email)]

\* !(!session || !session.user?.email)
HasEmail(s) == s.present /\ s.email # <<>>

\* ------------------------------------------------------------- search log
\* The search requests posted (the nextPageToken of each body, Null when the
\* body has none) and the pages received, in order; kept by NoLog never, by
\* EmptyLog from the first request on.
NoLog == [on |-> FALSE, requests |-> <<>>, pages |-> <<>>]
EmptyLog == [on |-> TRUE, requests |-> <<>>, pages |-> <<>>]

Posted(log, token) ==
  IF log.on THEN [log EXCEPT !.requests = Append(@, token)] ELSE log

Received(log, page, token) ==
  IF log.on
  THEN [log EXCEPT !.pages = Append(@, [issues |-> page, nextPageToken |-> token])]
  ELSE log

\* the continuation tokens the tracker may still answer with: a kept log ends
\* with its page MaxPages
MoreTokens(log) ==
  IF log.on /\ Len(log.pages) + 1 >= MaxPages THEN {} ELSE PageTokens

\* ------------------------------------------------------------------- state
VARIABLES
  clock,          \* Date.now()
  accountIdCache, \* email -> NoEntry | [value, ts]      (process-wide)
  calls,          \* caller -> the caller's resolveAccountIdByEmail call
  userSearches,   \* email -> user/search requests issued so far
  ticks,          \* advances of the clock so far
  pc,             \* the GET handler: start, resolve, search, pool, done
  session,        \* getServerSession(): NoSession | [provider, email]
  emailParam,     \* the request's email parameter, or Null
  startDateParam, \* the request's startDate parameter: <<day>>, <<>> if absent
  endDateParam,   \* the request's endDate parameter: <<day>>, <<>> if absent
  tz,             \* the server's offset from UTC, in ms
  win,            \* getDateRangeBounds of the request's dates, NoWindow before
  accountId,      \* GET's accountId
  jql,            \* GET's jql, NoJql before it is built
  nextPageToken,  \* GET's nextPageToken: the token of the page asked for
  issueKeys,      \* GET's issueKeys
  issueSummaries, \* GET's issueSummaries map
  searchLog,      \* the search requests posted and the pages received, if kept
  idx,            \* mapWithConcurrency's shared index
  workers,        \* mapWithConcurrency's workers: [st, current]
  handed,         \* the positions fn was called with, in call order
  fetched,        \* position -> the worklog list the tracker answered
  results,        \* GET's results array
  response        \* the response GET returned, or NoResponse

resolverVars == <<accountIdCache, calls, userSearches>>
poolVars == <<idx, workers, handed, fetched, results>>
searchVars == <<jql, nextPageToken, issueKeys, issueSummaries, searchLog>>
inputVars == <<session, startDateParam, endDateParam>>
vars == <<clock, accountIdCache, calls, userSearches, ticks, pc, session, emailParam,
          startDateParam, endDateParam, tz, win, accountId, jql, nextPageToken,
          issueKeys, issueSummaries, searchLog, idx, workers, handed, fetched,
          results, response>>

\* the caller that is the GET handler; 1..MaxCallers call the function directly
GET_CALL == 0
Callers == 0..MaxCallers

\* ------------------------------------------------ resolveAccountIdByEmail
\* accountIdCache.get(email) of an email never cached
NoEntry == [present |-> FALSE, value |-> Null, ts |-> 0]

\* cached?.value && now - cached.ts < ACCOUNT_ID_TTL_MS: a cached null is no hit
CacheHitTruthy(cached, now) ==
  cached.present /\ cached.value # Null /\ now - cached.ts < ACCOUNT_ID_TTL_MS

\* cached && now - cached.ts <= ACCOUNT_ID_TTL_MS
CacheHitInclusive(cached, now) ==
  cached.present /\ now - cached.ts <= ACCOUNT_ID_TTL_MS

\* cached && now - cached.ts < ACCOUNT_ID_TTL_MS
CacheHit(cached, now) == cached.present /\ now - cached.ts < ACCOUNT_ID_TTL_MS

\* (data || []).find(() => true)?.accountId ?? null
FirstAccountId(data) == IF data = <<>> THEN Null ELSE data[1].accountId

\* The call up to its return from the cache or to its await of the search.
ResolveStart(c, email) ==
  /\ calls[c].pc = "idle"
  /\ LET now == clock
         cached == accountIdCache[email]
     IN IF CacheHit(cached, now)
        THEN /\ calls' = [calls EXCEPT ![c] =
                   [pc |-> "returned", email |-> email, now |-> now,
                    ret |-> cached.value]]
             /\ UNCHANGED userSearches
        ELSE /\ calls' = [calls EXCEPT ![c] =
                   [pc |-> "await", email |-> email, now |-> now, ret |-> Null]]
             /\ userSearches' = [userSearches EXCEPT ![email] = @ + 1]
  /\ UNCHANGED accountIdCache

\* The search answered: cache the first match (or null) and return it.
ResolveReturn(c, data) ==
  /\ calls[c].pc = "await"
  /\ LET value == FirstAccountId(data)
     IN /\ accountIdCache' = [accountIdCache EXCEPT ![calls[c].email] =
                                [present |-> TRUE, value |-> value,
                                 ts |-> calls[c].now]]
        /\ calls' = [calls EXCEPT ![c].pc = "returned", ![c].ret = value]
  /\ UNCHANGED userSearches

\* catch { accountIdCache.set(email, { value: null, ts: now }); throw }
ResolveThrowCachesNull(c) ==
  /\ calls[c].pc = "await"
  /\ accountIdCache' = [accountIdCache EXCEPT ![calls[c].email] =
                          [present |-> TRUE, value |-> Null, ts |-> calls[c].now]]
  /\ calls' = [calls EXCEPT ![c].pc = "threw"]
  /\ UNCHANGED userSearches

\* The search failed: the error leaves the function.
ResolveThrow(c) ==
  /\ calls[c].pc = "await"
  /\ calls' = [calls EXCEPT ![c].pc = "threw"]
  /\ UNCHANGED <<accountIdCache, userSearches>>

IdleCall == [pc |-> "idle", email |-> Null, now |-> 0, ret |-> Null]

\* ------------------------------------------------------- mapWithConcurrency
\* const current = ++idx
PickPreIncrement(i) == [current |-> i + 1, idx |-> i + 1]

\* const current = idx++
Pick(i) == [current |-> i, idx |-> i + 1]

\* items[current]; undefined past the end of the array
ItemAt(items, i) == IF i + 1 \in 1..Len(items) THEN items[i + 1] ELSE Null

\* One pass of worker w through `while (idx < items.length)` up to its next
\* await: it takes the next index and calls fn, or leaves the loop.
\* ps = [idx, workers, handed].
WorkerLoop(ps, w, items) ==
  IF ps.idx < Len(items)
  THEN LET pk == Pick(ps.idx)
       IN [idx |-> pk.idx,
           workers |-> [ps.workers EXCEPT ![w] =
                          [st |-> "await", current |-> pk.current]],
           handed |-> Append(ps.handed, pk.current)]
  ELSE [ps EXCEPT !.workers[w].st = "exited"]

\* new Array(Math.min(limit, items.length)).fill(null).map(() => worker()):
\* each worker runs to its first await before the next one is created.
RECURSIVE Spawn(_, _, _)
Spawn(j, k, items) ==
  IF j = 0
  THEN [idx |-> 0, workers |-> [w \in 1..k |-> [st |-> "new", current |-> 0]],
        handed |-> <<>>]
  ELSE WorkerLoop(Spawn(j - 1, k, items), j, items)

\* one worker per item: no limit on the fetches in flight
PoolSizeUnbounded(limit, items) == Len(items)

\* Math.max(1, Math.min(limit, items.length)): a worker also for no items
PoolSizeAtLeastOne(limit, items) ==
  IF Len(items) = 0 THEN 1 ELSE Min(limit, Len(items))

PoolSize(limit, items) == Min(limit, Len(items))

\* the workers awaiting their fetch
InFlight == {w \in DOMAIN workers : workers[w].st = "await"}

\* ------------------------------------------------------------ GET: helpers
\* before line 313 ran
NoJql == [built |-> FALSE]

\* `worklogAuthor in (${accountId})` whatever accountId is
AuthorClauseAlwaysIn(acc) == [clause |-> "worklogAuthor in", arg |-> acc]

AuthorClause(acc) ==
  IF acc # Null THEN [clause |-> "worklogAuthor in", arg |-> acc]
  ELSE [clause |-> "worklogAuthor = currentUser()", arg |-> Null]

Jql(acc, w) ==
  [author |-> AuthorClause(acc), from |-> w.startISO, before |-> w.endISO]

\* started.getTime() of new Date(wl.started)
GetTime(started) == IF started.k = "date" THEN Num(started.ms) ELSE NaN

\* ms < startMs || ms > endMs
OutsideWindowEndInclusive(ms, w) ==
  /\ ~IsNaN(ms)
  /\ (Val(ms) < w.startMs \/ Val(ms) > w.endMs)

\* ms < startMs || ms >= endMs; every comparison with NaN is false
OutsideWindow(ms, w) ==
  /\ ~IsNaN(ms)
  /\ (Val(ms) < w.startMs \/ Val(ms) >= w.endMs)

\* accountId ? (!wl.author || wl.author.accountId === accountId) : true
AuthorMatchesOrMissing(wl, acc) ==
  IF acc # Null THEN wl.author = Null \/ wl.author = acc ELSE TRUE

\* accountId ? wl.author?.accountId === accountId : false
AuthorMatchesKnownOnly(wl, acc) == IF acc # Null THEN wl.author = acc ELSE FALSE

\* accountId ? wl.author?.accountId === accountId : true
AuthorMatches(wl, acc) == IF acc # Null THEN wl.author = acc ELSE TRUE

\* ms + timeSpentSeconds * 1000
EndedMs(ms, secs) == IF IsNaN(ms) THEN NaN ELSE Num(Val(ms) + secs * 1000)

\* The body of fn after its await, for the worklog list wls of the issue at
\* position pos: the entries it pushes to results, in order.  src names the
\* upstream worklog an entry was made from (the code keeps no such field).
RECURSIVE Pushed(_, _, _, _, _, _)
Pushed(wls, k, issueKey, pos, acc, w) ==
  IF k > Len(wls) THEN <<>>
  ELSE LET wl == wls[k]
           timeSpentSeconds == IF wl.timeSpentSeconds = <<>> THEN 0
                               ELSE wl.timeSpentSeconds[1]
           ms == GetTime(wl.started)
           rest == Pushed(wls, k + 1, issueKey, pos, acc, w)
       IN IF ~AuthorMatches(wl, acc) THEN rest
          ELSE IF wl.started.k = "missing" THEN rest
          ELSE IF OutsideWindow(ms, w) THEN rest
          ELSE <<[issueKey |-> issueKey, timeSpentSeconds |-> timeSpentSeconds,
                  comment |-> extractCommentText(wl.comment),
                  startedMs |-> ms, endedMs |-> EndedMs(ms, timeSpentSeconds),
                  src |-> <<pos, k>>]>> \o rest

\* results.map(...): toISOString throws a RangeError on an invalid date
MapThrows(rs) == \E i \in 1..Len(rs) : IsNaN(rs[i].startedMs) \/ IsNaN(rs[i].endedMs)

SummaryOf(summaries, key) ==
  IF key \in DOMAIN summaries THEN summaries[key] ELSE Null

MapEntry(r, summaries) ==
  [issueKey |-> r.issueKey, summary |-> SummaryOf(summaries, r.issueKey),
   timeSpentSeconds |-> r.timeSpentSeconds,
   startedISO |-> toISOString(Val(r.startedMs)),
   endedISO |-> toISOString(Val(r.endedMs)), comment |-> r.comment,
   src |-> r.src]

\* (a, b) => new Date(b.startedISO).getTime() - new Date(a.startedISO).getTime()
CompareDescending(a, b) == ISOToMs(b.startedISO) - ISOToMs(a.startedISO)

\* (a, b) => new Date(a.startedISO).getTime() - new Date(b.startedISO).getTime()
Compare(a, b) == ISOToMs(a.startedISO) - ISOToMs(b.startedISO)

\* Array.prototype.sort is stable: e goes behind every element not after it
RECURSIVE Insert(_, _)
Insert(sorted, e) ==
  IF sorted = <<>> THEN <<e>>
  ELSE LET last == sorted[Len(sorted)]
       IN IF Compare(last, e) <= 0 THEN Append(sorted, e)
          ELSE Append(Insert(SubSeq(sorted, 1, Len(sorted) - 1), e), last)

RECURSIVE Sort(_)
Sort(s) ==
  IF s = <<>> THEN <<>>
  ELSE Insert(Sort(SubSeq(s, 1, Len(s) - 1)), s[Len(s)])

\* worklogs.slice(1).reduce(...): the first entry is left out of the total
RECURSIVE ReduceFromSecond(_)
ReduceFromSecond(ws) ==
  IF Len(ws) <= 1 THEN 0
  ELSE ReduceFromSecond(SubSeq(ws, 1, Len(ws) - 1)) + ws[Len(ws)].timeSpentSeconds

\* worklogs.reduce((s, i) => s + (i.timeSpentSeconds || 0), 0)
RECURSIVE Reduce(_)
Reduce(ws) ==
  IF ws = <<>> THEN 0
  ELSE Reduce(SubSeq(ws, 1, Len(ws) - 1)) + ws[Len(ws)].timeSpentSeconds

\* ----------------------------------------------------------- GET: responses
NoResponse == [kind |-> "none"]

\* the session's (lower-cased) email, used when the request names none
SessionEmail == <<"me", "@lamunpunit.com">>

\* line 295
Unauthorized == [kind |-> "error", status |-> HTTP_UNAUTHORIZED,
                 error |-> "Unauthorized"]

\* error.response?.status ?? 500
ErrorStatus(err) == IF err.hasResponse THEN err.status ELSE HTTP_INTERNAL

\* the catch block for an axios error
ErrorResponse(err) ==
  [kind |-> "error", status |-> ErrorStatus(err),
   error |-> IF err.hasResponse THEN err.data ELSE err.message]

\* the catch block for any other error
ThrownResponse(message) ==
  [kind |-> "error", status |-> HTTP_INTERNAL, error |-> message]

\* lines 389-408: map, sort, reduce and the JSON body
OkResponse(rs, summaries, email, w, zone) ==
  LET worklogs == Sort([i \in 1..Len(rs) |-> MapEntry(rs[i], summaries)])
      totalSeconds == Reduce(worklogs)
  IN [kind |-> "ok", status |-> HTTP_OK,
      summary |-> [userEmail |-> IF email # Null THEN email ELSE session.email,
                   date |-> w.startISO, startDate |-> w.startISO,
                   endDate |-> dateOnlyISO(w.endMs - 1, zone),
                   totalSeconds |-> totalSeconds],
      worklogs |-> worklogs]

\* The handler returns from its catch block; a response already returned stays.
Catch(resp) ==
  /\ response' = IF response = NoResponse THEN resp ELSE response
  /\ pc' = "done"

\* ------------------------------------------------------------- GET: actions
\* lines 311-329: build the JQL and post the first search request, whose body
\* has no nextPageToken
BeginSearch(acc) ==
  /\ accountId' = acc
  /\ jql' = Jql(acc, win')
  /\ nextPageToken' = Null
  /\ searchLog' = Posted(searchLog, Null)
  /\ pc' = "search"

\* lines 292-311: the handler up to its first await, or to its 401
GetStart ==
  /\ pc = "start"
  /\ IF ~HasEmail(session)
     THEN /\ response' = Unauthorized
          /\ pc' = "done"
          /\ UNCHANGED <<resolverVars, win, accountId, jql, nextPageToken,
                         searchLog>>
     ELSE /\ win' = getDateRangeBounds(DateOrToday(startDateParam, clock, tz),
                                       DateOrToday(endDateParam, clock, tz), tz)
          /\ UNCHANGED response
          /\ IF emailParam = Null
             THEN /\ BeginSearch(Null)
                  /\ UNCHANGED resolverVars
             ELSE /\ ResolveStart(GET_CALL, emailParam)
                  /\ IF calls'[GET_CALL].pc = "returned"
                     THEN BeginSearch(calls'[GET_CALL].ret)
                     ELSE /\ pc' = "resolve"
                          /\ UNCHANGED <<accountId, jql, nextPageToken, searchLog>>
  /\ UNCHANGED <<clock, ticks, emailParam, inputVars, tz, issueKeys,
                 issueSummaries, poolVars>>

\* the identity search answered
GetIdentityReturn ==
  /\ pc = "resolve"
  /\ \E data \in IdentityData : ResolveReturn(GET_CALL, data)
  /\ UNCHANGED <<clock, ticks, emailParam, inputVars, tz, win, issueKeys,
                 issueSummaries, poolVars, response>>
  /\ BeginSearch(calls'[GET_CALL].ret)

\* the identity search failed
GetIdentityFail ==
  /\ pc = "resolve"
  /\ ResolveThrow(GET_CALL)
  /\ \E err \in AxiosErrors : Catch(ErrorResponse(err))
  /\ UNCHANGED <<clock, ticks, emailParam, inputVars, tz, win, accountId, searchVars, poolVars>>

\* issueKeys.unshift(issue.key): the issues of one page, last one first
RECURSIVE PageKeysNewestFirst(_)
PageKeysNewestFirst(page) ==
  IF page = <<>> THEN <<>>
  ELSE IF Head(page).key # Null
       THEN PageKeysNewestFirst(Tail(page)) \o <<Head(page).key>>
  ELSE PageKeysNewestFirst(Tail(page))

\* lines 341-347: the issues of one page, appended to issueKeys
RECURSIVE PageKeys(_)
PageKeys(page) ==
  IF page = <<>> THEN <<>>
  ELSE IF Head(page).key # Null THEN <<Head(page).key>> \o PageKeys(Tail(page))
  ELSE PageKeys(Tail(page))

\* issueSummaries.set(issue.key, issue.fields?.summary ?? null), in page order
RECURSIVE PageSummaries(_, _)
PageSummaries(summaries, page) ==
  IF page = <<>> THEN summaries
  ELSE LET issue == Head(page)
           next == IF issue.key = Null THEN summaries
                   ELSE [k \in DOMAIN summaries \cup {issue.key} |->
                           IF k = issue.key THEN issue.summary ELSE summaries[k]]
       IN PageSummaries(next, Tail(page))

\* lines 352-353 and 177-186: the pool is created over issueKeys
StartPool(items) ==
  LET k == PoolSize(CONCURRENCY, items)
      ps == Spawn(k, k, items)
  IN /\ idx' = ps.idx
     /\ workers' = ps.workers
     /\ handed' = ps.handed
     /\ fetched' = [p \in 1..Len(items) |-> [done |-> FALSE, worklogs |-> <<>>]]
     /\ results' = <<>>
     /\ pc' = "pool"

\* lines 329-349: a search page arrived; collect it, then post the request
\* for the next page (while (nextPageToken)) or fan out
SearchReturn(universe, maxIssues) ==
  /\ pc = "search"
  /\ \E page \in SeqsUpTo(universe, maxIssues - Len(issueKeys)),
        token \in {Null} \cup MoreTokens(searchLog) :
       /\ issueKeys' = issueKeys \o PageKeys(page)
       /\ issueSummaries' = PageSummaries(issueSummaries, page)
       /\ nextPageToken' = token
       /\ searchLog' = IF token # Null
                       THEN Posted(Received(searchLog, page, token), token)
                       ELSE Received(searchLog, page, token)
       /\ IF token # Null
          THEN UNCHANGED <<pc, poolVars>>
          ELSE StartPool(issueKeys')
  /\ UNCHANGED <<clock, ticks, resolverVars, emailParam, inputVars, tz, win, accountId, jql,
                 response>>

\* a search request failed
SearchFail ==
  /\ pc = "search"
  /\ \E err \in AxiosErrors : Catch(ErrorResponse(err))
  /\ UNCHANGED <<clock, ticks, resolverVars, emailParam, inputVars, tz, win, accountId,
                 searchVars, poolVars>>

TotalFetched == SumLens([p \in DOMAIN fetched |-> fetched[p].worklogs])

\* fn keeps its entries in a list of its own that replaces the shared one:
\* results = entries instead of results.push(entry)
FetchReturnOverwrite(w, universe, maxWorklogs) ==
  /\ w \in DOMAIN workers
  /\ workers[w].st = "await"
  /\ \E wls \in SeqsUpTo(universe, maxWorklogs - TotalFetched) :
       LET current == workers[w].current
           issueKey == ItemAt(issueKeys, current)
           ps == WorkerLoop([idx |-> idx, workers |-> workers, handed |-> handed],
                            w, issueKeys)
       IN /\ results' = Pushed(wls, 1, issueKey, current, accountId, win)
          /\ fetched' = [p \in DOMAIN fetched |->
                           IF p = current + 1 THEN [done |-> TRUE, worklogs |-> wls]
                           ELSE fetched[p]]
          /\ idx' = ps.idx
          /\ workers' = ps.workers
          /\ handed' = ps.handed
  /\ UNCHANGED <<clock, ticks, resolverVars, pc, emailParam, inputVars, tz, win, accountId,
                 searchVars, response>>

\* lines 366-386 and 181-184: the worklog listing of worker w's issue arrived;
\* fn pushes the surviving entries and the worker loops
FetchReturn(w, universe, maxWorklogs) ==
  /\ w \in DOMAIN workers
  /\ workers[w].st = "await"
  /\ \E wls \in SeqsUpTo(universe, maxWorklogs - TotalFetched) :
       LET current == workers[w].current
           issueKey == ItemAt(issueKeys, current)
           ps == WorkerLoop([idx |-> idx, workers |-> workers, handed |-> handed],
                            w, issueKeys)
       IN /\ results' = results \o Pushed(wls, 1, issueKey, current, accountId, win)
          /\ fetched' = [p \in DOMAIN fetched |->
                           IF p = current + 1 THEN [done |-> TRUE, worklogs |-> wls]
                           ELSE fetched[p]]
          /\ idx' = ps.idx
          /\ workers' = ps.workers
          /\ handed' = ps.handed
  /\ UNCHANGED <<clock, ticks, resolverVars, pc, emailParam, inputVars, tz, win, accountId,
                 searchVars, response>>

\* the failure is caught around the pool and the entries collected so far are
\* returned (graceful degradation)
FetchFailPartial(w) ==
  /\ w \in DOMAIN workers
  /\ workers[w].st = "await"
  /\ workers' = [workers EXCEPT ![w].st = "threw"]
  /\ IF MapThrows(results)
     THEN Catch(ThrownResponse("Invalid time value"))
     ELSE Catch(OkResponse(results, issueSummaries, emailParam, win, tz))
  /\ UNCHANGED <<clock, ticks, resolverVars, emailParam, inputVars, tz, win, accountId,
                 searchVars, idx, handed, fetched, results>>

\* the worklog listing of worker w's issue failed: fn throws, the worker
\* rejects, Promise.all rejects and GET's catch block answers
FetchFail(w) ==
  /\ w \in DOMAIN workers
  /\ workers[w].st = "await"
  /\ workers' = [workers EXCEPT ![w].st = "threw"]
  /\ \E err \in AxiosErrors : Catch(ErrorResponse(err))
  /\ UNCHANGED <<clock, ticks, resolverVars, emailParam, inputVars, tz, win, accountId,
                 searchVars, idx, handed, fetched, results>>

\* await Promise.race(workers): the first worker to return resolves the pool
FinishAfterFirst ==
  /\ pc = "pool"
  /\ \E w \in DOMAIN workers : workers[w].st = "exited"
  /\ IF MapThrows(results)
     THEN Catch(ThrownResponse("Invalid time value"))
     ELSE Catch(OkResponse(results, issueSummaries, emailParam, win, tz))
  /\ UNCHANGED <<clock, ticks, resolverVars, emailParam, inputVars, tz, win, accountId,
                 searchVars, poolVars>>

\* lines 187 and 388-408: every worker returned, Promise.all resolves
Finish ==
  /\ pc = "pool"
  /\ \A w \in DOMAIN workers : workers[w].st = "exited"
  /\ IF MapThrows(results)
     THEN Catch(ThrownResponse("Invalid time value"))
     ELSE Catch(OkResponse(results, issueSummaries, emailParam, win, tz))
  /\ UNCHANGED <<clock, ticks, resolverVars, emailParam, inputVars, tz, win, accountId,
                 searchVars, poolVars>>

\* ----------------------------------------------------------------- sign-in
\* A visitor signs in before the request: the framework asks callbacks.signIn
\* and keeps a session when it returns true.
SignIn(provider, email) ==
  /\ pc = "start"
  /\ ~session.present
  /\ session' = IF signIn(provider, email) THEN SignedIn(provider, email)
                ELSE session
  /\ UNCHANGED <<clock, ticks, resolverVars, pc, emailParam, startDateParam,
                 endDateParam, tz, win, accountId, searchVars, poolVars, response>>

\* ----------------------------------------------------- direct resolver calls
\* resolveAccountIdByEmail called by caller c, outside the modelled request
CallStart(c, email) ==
  /\ ResolveStart(c, email)
  /\ UNCHANGED <<clock, ticks, pc, emailParam, inputVars, tz, win, accountId, searchVars,
                 poolVars, response>>

CallReturn(c, data) ==
  /\ ResolveReturn(c, data)
  /\ UNCHANGED <<clock, ticks, pc, emailParam, inputVars, tz, win, accountId, searchVars,
                 poolVars, response>>

CallThrow(c) ==
  /\ ResolveThrow(c)
  /\ UNCHANGED <<clock, ticks, pc, emailParam, inputVars, tz, win, accountId, searchVars,
                 poolVars, response>>

\* the steps the wall clock advances by between two events
TickSteps == {1, ACCOUNT_ID_TTL_MS - 1}

Tick(d) ==
  /\ ticks < MaxTicks
  /\ clock' = clock + d
  /\ ticks' = ticks + 1
  /\ UNCHANGED <<resolverVars, pc, emailParam, inputVars, tz, win, accountId, searchVars,
                 poolVars, response>>

\* ------------------------------------------------------------ specifications
\* what earlier requests may have left in the cache for the requested email:
\* nothing, a null cached 1 ms less than 5 minutes ago, an account cached
\* then, or an account cached exactly 5 minutes ago
RequestCaches(now) ==
  {NoEntry,
   [present |-> TRUE, value |-> Null, ts |-> now - ACCOUNT_ID_TTL_MS + 1],
   [present |-> TRUE, value |-> "acc1", ts |-> now - ACCOUNT_ID_TTL_MS + 1],
   [present |-> TRUE, value |-> "acc1", ts |-> now - ACCOUNT_ID_TTL_MS]}

InitProcess ==
  /\ clock = ACCOUNT_ID_TTL_MS
  /\ ticks = 0
  /\ calls = [c \in Callers |-> IdleCall]
  /\ userSearches = [e \in Emails |-> 0]

InitRequest ==
  /\ pc = "start"
  /\ win = NoWindow
  /\ accountId = Null
  /\ jql = NoJql
  /\ nextPageToken = Null
  /\ issueKeys = <<>>
  /\ issueSummaries = <<>>
  /\ idx = 0
  /\ workers = <<>>
  /\ handed = <<>>
  /\ fetched = <<>>
  /\ results = <<>>
  /\ response = NoResponse

\* one request to the handler, in a process whose cache earlier requests filled
Init ==
  /\ InitProcess
  /\ InitRequest
  /\ session = SignedIn("google", SessionEmail)
  /\ tz \in TzOffsets
  /\ \E d \in RequestDates :
       startDateParam = Num(d[1]) /\ endDateParam = Num(d[2])
  /\ searchLog = NoLog
  /\ emailParam \in {Null, "e1"}
  /\ \E entry \in (IF emailParam = Null THEN {NoEntry} ELSE RequestCaches(clock)) :
       accountIdCache = [e \in Emails |-> IF e = "e1" THEN entry ELSE NoEntry]

Next ==
  \/ GetStart
  \/ GetIdentityReturn
  \/ GetIdentityFail
  \/ SearchReturn(IssueUniverse, MaxIssues)
  \/ SearchFail
  \/ \E w \in DOMAIN workers : FetchReturn(w, WorklogUniverse(win), MaxWorklogs)
  \/ \E w \in DOMAIN workers : FetchFail(w)
  \/ Finish

Spec == Init /\ [][Next]_vars

\* the same request over more issues than the pool has workers; every worklog
\* listing is empty
NextPool ==
  \/ GetStart
  \/ GetIdentityReturn
  \/ GetIdentityFail
  \/ SearchReturn(PoolIssueUniverse, MaxPoolIssues)
  \/ SearchFail
  \/ \E w \in DOMAIN workers : FetchReturn(w, {}, 0)
  \/ \E w \in DOMAIN workers : FetchFail(w)
  \/ Finish

SpecPool == Init /\ [][NextPool]_vars

\* The premise of termination: the worklog fetch a worker awaits is answered or
\* fails (httpClient gives up after timeout: 20000), and the event loop runs the
\* continuation of a settled promise.
PoolFairness ==
  /\ \A w \in 1..CONCURRENCY : WF_vars(FetchReturn(w, {}, 0) \/ FetchFail(w))
  /\ WF_vars(Finish)

\* one request without an email parameter, which goes from its start straight
\* to the issue search
InitFair == Init /\ emailParam = Null

NextFair ==
  \/ GetStart
  \/ SearchReturn(PoolIssueUniverse, MaxPoolIssues)
  \/ SearchFail
  \/ \E w \in DOMAIN workers : FetchReturn(w, {}, 0)
  \/ \E w \in DOMAIN workers : FetchFail(w)
  \/ Finish

SpecPoolFair == InitFair /\ [][NextFair]_vars /\ PoolFairness

\* resolveAccountIdByEmail called by MaxCallers callers while the clock runs
InitCache ==
  /\ InitProcess
  /\ InitRequest
  /\ session = SignedIn("google", SessionEmail)
  /\ tz \in TzOffsets
  /\ \E d \in RequestDates :
       startDateParam = Num(d[1]) /\ endDateParam = Num(d[2])
  /\ searchLog = NoLog
  /\ emailParam = Null
  /\ accountIdCache = [e \in Emails |-> NoEntry]

NextCache ==
  \/ \E c \in 1..MaxCallers, e \in Emails : CallStart(c, e)
  \/ \E c \in 1..MaxCallers, data \in IdentityData : CallReturn(c, data)
  \/ \E c \in 1..MaxCallers : CallThrow(c)
  \/ \E d \in TickSteps : Tick(d)

SpecCache == InitCache /\ [][NextCache]_vars

\* one request without email whose search requests and pages are logged; every
\* worklog listing is empty
InitSearch ==
  /\ InitProcess
  /\ InitRequest
  /\ session = SignedIn("google", SessionEmail)
  /\ tz \in TzOffsets
  /\ \E d \in RequestDates :
       startDateParam = Num(d[1]) /\ endDateParam = Num(d[2])
  /\ searchLog = EmptyLog
  /\ emailParam = Null
  /\ accountIdCache = [e \in Emails |-> NoEntry]

NextSearch ==
  \/ GetStart
  \/ SearchReturn(IssueUniverse, MaxSearchIssues)
  \/ SearchFail
  \/ \E w \in DOMAIN workers : FetchReturn(w, {}, 0)
  \/ \E w \in DOMAIN workers : FetchFail(w)
  \/ Finish

SpecSearch == InitSearch /\ [][NextSearch]_vars

\* one request without email for every pair of date parameters in every zone,
\* over at most one issue and one upstream worklog
InitDates ==
  /\ InitProcess
  /\ InitRequest
  /\ session = SignedIn("google", SessionEmail)
  /\ tz \in DateZones
  /\ startDateParam \in DateParams
  /\ endDateParam \in DateParams
  /\ searchLog = NoLog
  /\ emailParam = Null
  /\ accountIdCache = [e \in Emails |-> NoEntry]

NextDates ==
  \/ GetStart
  \/ SearchReturn(PoolIssueUniverse, 1)
  \/ SearchFail
  \/ \E w \in DOMAIN workers : FetchReturn(w, WorklogUniverse(win), 1)
  \/ \E w \in DOMAIN workers : FetchFail(w)
  \/ Finish

SpecDates == InitDates /\ [][NextDates]_vars

\* a visitor without session who may sign in and then sends the request, over
\* at most one issue; every worklog listing is empty
InitSignIn ==
  /\ InitProcess
  /\ InitRequest
  /\ session = NoSession
  /\ tz \in TzOffsets
  /\ \E d \in RequestDates :
       startDateParam = Num(d[1]) /\ endDateParam = Num(d[2])
  /\ searchLog = NoLog
  /\ emailParam \in {Null, "e1"}
  /\ \E entry \in (IF emailParam = Null THEN {NoEntry} ELSE RequestCaches(clock)) :
       accountIdCache = [e \in Emails |-> IF e = "e1" THEN entry ELSE NoEntry]

NextSignIn ==
  \/ \E provider \in Providers, email \in ProfileEmails : SignIn(provider, email)
  \/ GetStart
  \/ GetIdentityReturn
  \/ GetIdentityFail
  \/ SearchReturn(PoolIssueUniverse, 1)
  \/ SearchFail
  \/ \E w \in DOMAIN workers : FetchReturn(w, {}, 0)
  \/ \E w \in DOMAIN workers : FetchFail(w)
  \/ Finish

SpecSignIn == InitSignIn /\ [][NextSignIn]_vars

\* one request without email over at most one issue, whose listing holds at
\* most one worklog with any of the modelled comments
NextComment ==
  \/ GetStart
  \/ SearchReturn(PoolIssueUniverse, 1)
  \/ SearchFail
  \/ \E w \in DOMAIN workers : FetchReturn(w, CommentWorklogs(win), 1)
  \/ \E w \in DOMAIN workers : FetchFail(w)
  \/ Finish

SpecComment == InitCache /\ [][NextComment]_vars

\* -------------------------------------------------------------------- claims
Succeeded == response.kind = "ok"

\* the upstream worklog an entry was made from
Upstream(e) == fetched[e.src[1] + 1].worklogs[e.src[2]]

\* the sum of timeSpentSeconds over the entries of a list, front to back
RECURSIVE SumSeconds(_)
SumSeconds(ws) ==
  IF ws = <<>> THEN 0 ELSE Head(ws).timeSpentSeconds + SumSeconds(Tail(ws))

\* C1: in every successful response summary.totalSeconds is the sum of
\* timeSpentSeconds over the entries of the returned worklogs list.
C1_TotalIsSum ==
  Succeeded => response.summary.totalSeconds = SumSeconds(response.worklogs)

\* a successful response with two entries, one of 60 s and one without time
C1_Witness ==
  /\ Succeeded
  /\ Len(response.worklogs) = 2
  /\ response.summary.totalSeconds = 60

\* C2: every entry of a successful response starts inside
\* [windowStart, windowEnd): it was made from an upstream worklog with a start
\* time t, windowStart <= t < windowEnd, and its startedISO is that time.
C2_WindowFilter ==
  Succeeded =>
    \A i \in 1..Len(response.worklogs) :
      LET e == response.worklogs[i]
          up == Upstream(e)
      IN /\ up.started.k = "date"
         /\ up.started.ms >= win.startMs
         /\ up.started.ms < win.endMs
         /\ ISOToMs(e.startedISO) = up.started.ms

\* the upstream worklogs the tracker returned during the request
UpstreamWorklogs ==
  UNION {{fetched[p].worklogs[k] : k \in 1..Len(fetched[p].worklogs)} :
           p \in DOMAIN fetched}

\* a successful response after the tracker listed a worklog started 1 ms
\* before windowStart and one started exactly at windowEnd
C2_Witness ==
  /\ Succeeded
  /\ \E wl \in UpstreamWorklogs :
       wl.started.k = "date" /\ wl.started.ms = win.startMs - 1
  /\ \E wl \in UpstreamWorklogs :
       wl.started.k = "date" /\ wl.started.ms = win.endMs

Threw == {w \in DOMAIN workers : workers[w].st = "threw"}

\* C3: once the worklog fetch of an issue has failed, the request has ended
\* with an error response of non-2xx status that carries neither worklogs nor
\* a summary, whatever the other workers collected.
C3_FailureAborts ==
  Threw # {} =>
    /\ response.kind = "error"
    /\ ~(response.status \in 200..299)
    /\ ~("worklogs" \in DOMAIN response)
    /\ ~("summary" \in DOMAIN response)

\* a fetch failed after another issue's entries had been collected
C3_Witness ==
  /\ Threw # {}
  /\ results # <<>>
  /\ \E w \in DOMAIN workers : workers[w].st = "exited"
  /\ response.kind = "error"

Handed == {handed[i] : i \in 1..Len(handed)}

\* C4: no position of the issue list is handed to fn twice, fn is called with
\* positions of the list only, and when every worker of the pool has left its
\* loop and no fetch failed, every position was handed to fn.
C4_HandedOnce ==
  /\ \A i, j \in 1..Len(handed) : i # j => handed[i] # handed[j]
  /\ Handed \subseteq 0..(Len(issueKeys) - 1)
  /\ (/\ pc = "pool" \/ Succeeded
      /\ \A w \in DOMAIN workers : workers[w].st = "exited")
     => Handed = 0..(Len(issueKeys) - 1)

\* a request over more issues than workers succeeded
C4_Witness ==
  /\ Succeeded
  /\ Len(issueKeys) > CONCURRENCY
  /\ Len(handed) = Len(issueKeys)

\* the positions whose fetch was started and has neither answered nor failed
FetchesInFlight ==
  {p \in Handed : /\ p + 1 \in DOMAIN fetched => ~fetched[p + 1].done
                  /\ \A w \in Threw : workers[w].current # p}

\* C5: at most 6 worklog fetches are in flight, and at most as many as there
\* are issues.
C5_BoundedInFlight ==
  /\ Cardinality(FetchesInFlight) <= 6
  /\ Cardinality(FetchesInFlight) <= Len(issueKeys)

\* 6 fetches in flight after the first answers, over more than 6 issues
C5_Witness ==
  /\ Cardinality(FetchesInFlight) = 6
  /\ Len(issueKeys) > 6
  /\ \E p \in DOMAIN fetched : fetched[p].done

\* caller c passes from not having called to its call's first await or return
Starts(c) == calls[c].pc = "idle" /\ calls'[c].pc # "idle"

\* C6: a resolution of an email that starts when the cache holds an entry for
\* it, written less than 5 minutes (300000 ms) after the entry's timestamp,
\* issues no identity search and returns the cached value, an account or
\* null; an entry is in the cache only after a search for its email, so the
\* two resolutions issue one search.
C6_CacheHitNoSearch ==
  [][\A c \in 1..MaxCallers :
       Starts(c) =>
         LET e == calls'[c].email
             entry == accountIdCache[e]
         IN (entry.present /\ clock - entry.ts < 300000) =>
              /\ userSearches[e] >= 1
              /\ userSearches' = userSearches
              /\ accountIdCache' = accountIdCache
              /\ calls'[c].pc = "returned"
              /\ calls'[c].ret = entry.value]_vars

\* two resolutions of an email returned null, the second one started later,
\* within the 5 minutes, and one search was issued
C6_Witness ==
  /\ calls[1].pc = "returned" /\ calls[2].pc = "returned"
  /\ calls[1].email = calls[2].email
  /\ calls[1].ret = Null /\ calls[2].ret = Null
  /\ calls[2].now > calls[1].now
  /\ calls[2].now - accountIdCache[calls[1].email].ts < 300000
  /\ userSearches[calls[1].email] = 1

\* the results array had every worklog listing answered in issue order
RECURSIVE InOrderResults(_)
InOrderResults(p) ==
  IF p = 0 THEN <<>>
  ELSE InOrderResults(p - 1) \o
       Pushed(fetched[p].worklogs, 1, issueKeys[p], p - 1, accountId, win)

\* the fields of an entry the response carries
Visible(ws) ==
  [i \in 1..Len(ws) |->
     [issueKey |-> ws[i].issueKey, summary |-> ws[i].summary,
      timeSpentSeconds |-> ws[i].timeSpentSeconds,
      startedISO |-> ws[i].startedISO, endedISO |-> ws[i].endedISO]]

\* the issue search listed no issue twice
DistinctKeys ==
  \A i, j \in 1..Len(issueKeys) : i # j => issueKeys[i] # issueKeys[j]

\* C7: the entries of a successful response over distinct issues are, in
\* order, those the same issue list and the same worklog listings yield when
\* the fetches complete in issue order: no completion order changes the
\* sequence, also when two entries start at the same time.
C7_OrderIndependent ==
  (Succeeded /\ DistinctKeys) =>
    Visible(response.worklogs) =
      Visible(OkResponse(InOrderResults(Len(issueKeys)), issueSummaries,
                         emailParam, win, tz).worklogs)

\* C8: the entries of a successful response are ordered by start time
\* ascending.
C8_Sorted ==
  Succeeded =>
    \A i, j \in 1..Len(response.worklogs) :
      i < j => ISOToMs(response.worklogs[i].startedISO)
                 <= ISOToMs(response.worklogs[j].startedISO)

\* a successful response whose two entries were collected latest first
C8_Witness ==
  /\ Succeeded
  /\ Len(results) = 2
  /\ Val(results[1].startedMs) > Val(results[2].startedMs)

\* C9: with a resolved accountId every entry of a successful response was
\* made from an upstream worklog of that author; without one, every upstream
\* worklog that starts inside the window has its entry in the response.
C9_AuthorFilter ==
  Succeeded =>
    /\ accountId # Null =>
         \A i \in 1..Len(response.worklogs) :
           Upstream(response.worklogs[i]).author = accountId
    /\ accountId = Null =>
         \A p \in DOMAIN fetched : \A k \in 1..Len(fetched[p].worklogs) :
           LET wl == fetched[p].worklogs[k]
           IN (/\ wl.started.k = "date"
               /\ wl.started.ms >= win.startMs
               /\ wl.started.ms < win.endMs)
              => \E i \in 1..Len(response.worklogs) :
                   response.worklogs[i].src = <<p - 1, k>>

\* a successful response for a resolved account after the tracker listed a
\* worklog of another author and one without author, both inside the window
C9_Witness ==
  /\ Succeeded
  /\ accountId = "acc1"
  /\ \E wl \in UpstreamWorklogs : wl.author = "acc2"
  /\ \E wl \in UpstreamWorklogs : wl.author = Null
  /\ response.worklogs = <<>>

\* C10: when the resolution of the requested email returns null, the handler
\* goes on: no response is returned, accountId is null and the first search
\* request is posted with the clause worklogAuthor = currentUser(), the JQL
\* of a request without email.
C10_NoMatchFallsBack ==
  [][(/\ emailParam # Null
      /\ calls[GET_CALL].pc # "returned"
      /\ calls'[GET_CALL].pc = "returned"
      /\ calls'[GET_CALL].ret = Null)
     => /\ pc' = "search"
        /\ response' = NoResponse
        /\ accountId' = Null
        /\ nextPageToken' = Null
        /\ jql' = [author |-> [clause |-> "worklogAuthor = currentUser()",
                              arg |-> Null],
                   from |-> win'.startISO, before |-> win'.endISO]]_vars

\* the identity search of the request answered with no user and the issue
\* search is under way
C10_Witness ==
  /\ emailParam # Null
  /\ calls[GET_CALL].pc = "returned"
  /\ calls[GET_CALL].ret = Null
  /\ userSearches[emailParam] = 1
  /\ pc = "search"

\* the request named an email and its resolution returned null
NoMatch ==
  /\ emailParam # Null
  /\ calls[GET_CALL].pc = "returned"
  /\ calls[GET_CALL].ret = Null

\* the upstream worklogs that start inside the window, by position and index
InWindowSrcs ==
  UNION {{<<p - 1, k>> : k \in {j \in 1..Len(fetched[p].worklogs) :
              LET wl == fetched[p].worklogs[j]
              IN /\ wl.started.k = "date"
                 /\ wl.started.ms >= win.startMs
                 /\ wl.started.ms < win.endMs}} : p \in DOMAIN fetched}

ResponseSrcs == {response.worklogs[i].src : i \in 1..Len(response.worklogs)}

\* C11 as stated: a successful response of a request whose email has no
\* matching account has an empty worklogs list and totalSeconds = 0.
C11_NoMatchEmpty ==
  (Succeeded /\ NoMatch) =>
    /\ response.worklogs = <<>>
    /\ response.summary.totalSeconds = 0

\* C11 as amended: a request whose email has no matching account goes on with
\* accountId = null and without author filter; when it succeeds, its worklogs
\* list has exactly one entry for every upstream worklog that starts inside
\* the window, whoever its author is, so the list is empty exactly when the
\* listings hold no such worklog, and then totalSeconds = 0.
C11_NoMatchKeepsAll ==
  (Succeeded /\ NoMatch) =>
    /\ accountId = Null
    /\ ResponseSrcs = InWindowSrcs
    /\ Len(response.worklogs) = Cardinality(InWindowSrcs)
    /\ InWindowSrcs = {} => response.summary.totalSeconds = 0

\* a successful response for an email without account that lists a worklog of
\* the author acc2
C11_Witness ==
  /\ Succeeded
  /\ NoMatch
  /\ \E i \in 1..Len(response.worklogs) :
       Upstream(response.worklogs[i]).author = "acc2"
  /\ response.summary.totalSeconds > 0

\* a successful response without entries
EmptyOk ==
  /\ Succeeded
  /\ response.status = 200
  /\ response.worklogs = <<>>
  /\ response.summary.totalSeconds = 0

\* every worklog the tracker listed fails a filter: it is of another author
\* than the resolved one, has no start time, or starts outside the window
NoSurvivor ==
  \A p \in DOMAIN fetched : \A k \in 1..Len(fetched[p].worklogs) :
    LET wl == fetched[p].worklogs[k]
    IN \/ accountId # Null /\ wl.author # accountId
       \/ wl.started.k = "missing"
       \/ /\ wl.started.k = "date"
          /\ (wl.started.ms < win.startMs \/ wl.started.ms >= win.endMs)

\* C12: when the issue search ends with no issue collected, the pool is
\* created without a worker and without a fetch, and the only step the
\* request then takes is its successful end with an empty worklogs list and
\* totalSeconds = 0; when every worker has left its loop and no listed
\* worklog survives the filters, the request ends the same way.
C12_NothingFound ==
  [][/\ (pc = "search" /\ pc' = "pool" /\ issueKeys' = <<>>) =>
          workers' = <<>> /\ handed' = <<>> /\ fetched' = <<>>
     /\ (pc = "pool" /\ issueKeys = <<>>) =>
          pc' = "done" /\ EmptyOk' /\ handed' = <<>>
     /\ (pc = "pool" /\ pc' = "done" /\ Threw' = {} /\ NoSurvivor) =>
          EmptyOk']_vars

\* the request succeeded over no issue, with no worker and no fetch
C12_Witness ==
  /\ EmptyOk
  /\ issueKeys = <<>>
  /\ workers = <<>>
  /\ handed = <<>>

\* the request succeeded without entries over two issues whose listings held
\* a worklog each
C12_WitnessFiltered ==
  /\ EmptyOk
  /\ Len(issueKeys) = 2
  /\ \A p \in DOMAIN fetched : Len(fetched[p].worklogs) = 1

\* the keys of the issues of a page that have one, in page order
KeysIn(page) ==
  LET withKey == SelectSeq(page, LAMBDA issue : issue.key # Null)
  IN [j \in 1..Len(withKey) |-> withKey[j].key]

\* the keys of the first n logged pages, page after page
RECURSIVE LoggedKeys(_)
LoggedKeys(n) ==
  IF n = 0 THEN <<>>
  ELSE LoggedKeys(n - 1) \o KeysIn(searchLog.pages[n].issues)

\* C13: the first search request carries no token; request i+1 is posted
\* exactly when page i carried a continuation token, and it carries that
\* token; the loop ends with the first page without token; issueKeys is the
\* concatenation of the keys of the pages received, in page order; a worklog
\* fetch is started only after a page without token was received.
C13_Pagination ==
  LET reqs == searchLog.requests
      pages == searchLog.pages
  IN /\ (pc \in {"search", "pool"} \/ Succeeded) => (reqs # <<>> /\ reqs[1] = Null)
     /\ Len(reqs) \in {Len(pages), Len(pages) + 1}
     /\ pc = "search" => Len(reqs) = Len(pages) + 1
     /\ \A i \in 1..Len(pages) :
          /\ (i < Len(reqs)) <=> (pages[i].nextPageToken # Null)
          /\ i < Len(reqs) => reqs[i + 1] = pages[i].nextPageToken
     /\ issueKeys = LoggedKeys(Len(pages))
     /\ (pc = "pool" \/ handed # <<>> \/ Succeeded) =>
          /\ Len(reqs) = Len(pages)
          /\ pages[Len(pages)].nextPageToken = Null

\* a request succeeded after two pages, the first listing B and an issue
\* without key, the second listing A
C13_Witness ==
  /\ Succeeded
  /\ Len(searchLog.pages) = 2
  /\ Len(searchLog.pages[1].issues) = 2
  /\ KeysIn(searchLog.pages[1].issues) = <<"B">>
  /\ KeysIn(searchLog.pages[2].issues) = <<"A">>
  /\ Len(handed) = 2

\* C14: every issue key contributes its worklogs to a successful response
\* once: all entries of a key were made from one worklog listing of that key,
\* so that no worklog of the issue adds to totalSeconds twice, also when the
\* search listed the key more than once.
C14_KeyCountedOnce ==
  Succeeded =>
    \A i, j \in 1..Len(response.worklogs) :
      response.worklogs[i].issueKey = response.worklogs[j].issueKey
        => response.worklogs[i].src[1] = response.worklogs[j].src[1]

\* the calendar days the request asks for: its parameters, or the server's
\* local date where a parameter is absent
StartDay == IF startDateParam # <<>> THEN startDateParam[1]
            ELSE (clock + tz) \div 86400000
EndDay == IF endDateParam # <<>> THEN endDateParam[1]
          ELSE (clock + tz) \div 86400000

\* C15 as stated: every window the handler builds has endMs > startMs.
C15_EndAfterStart ==
  win # NoWindow => win.endMs > win.startMs

\* C15 as amended: the window of a request whose end date is not earlier than
\* its start date has endMs > startMs; the window of a request whose end
\* date is earlier than its start date is built as it stands, with
\* endMs <= startMs, and holds no instant.
C15_EndAfterStartIfOrdered ==
  win # NoWindow =>
    /\ EndDay >= StartDay => win.endMs > win.startMs
    /\ EndDay < StartDay => win.endMs <= win.startMs
    /\ (EndDay < StartDay /\ Succeeded) => response.worklogs = <<>>

\* a request for an end date one day before its start date succeeded, with a
\* window whose two bounds are the same instant
C15_Witness ==
  /\ win # NoWindow
  /\ startDateParam # <<>> /\ endDateParam # <<>>
  /\ EndDay = StartDay - 1
  /\ win.endMs = win.startMs
  /\ Succeeded
  /\ TotalFetched = 1

\* C16: the window of a request that supplies a start date and an end date,
\* start <= end, spans (end - start + 1) x 86,400,000 ms, from the midnight
\* that begins the start date in the server's zone to the midnight that
\* begins the day after the end date.
C16_ExactDays ==
  (win # NoWindow /\ startDateParam # <<>> /\ endDateParam # <<>>
     /\ StartDay <= EndDay) =>
    /\ win.endMs - win.startMs = (EndDay - StartDay + 1) * 86400000
    /\ win.startMs = StartDay * 86400000 - tz
    /\ win.endMs = (EndDay + 1) * 86400000 - tz

\* the text fragments of the leaves below a list of nodes, in document order
RECURSIVE LeafFragments(_)
LeafFragments(nodes) ==
  IF nodes = <<>> THEN <<>>
  ELSE LET n == Head(nodes)
           own == IF n.content # <<>> THEN LeafFragments(n.content)
                  ELSE IF n.hasText /\ n.text # <<>> THEN <<n.text>>
                  ELSE <<>>
       IN own \o LeafFragments(Tail(nodes))

\* the nodes of all blocks, block after block
RECURSIVE NodesOf(_)
NodesOf(blocks) ==
  IF blocks = <<>> THEN <<>> ELSE Head(blocks).content \o NodesOf(Tail(blocks))

\* the fragments separated by single spaces
RECURSIVE Spaced(_)
Spaced(fragments) ==
  IF fragments = <<>> THEN <<>>
  ELSE IF Len(fragments) = 1 THEN fragments[1]
  ELSE fragments[1] \o <<" ">> \o Spaced(Tail(fragments))

\* a text without its leading and trailing spaces
RECURSIVE Stripped(_)
Stripped(t) ==
  IF t = <<>> THEN t
  ELSE IF Head(t) = " " THEN Stripped(Tail(t))
  ELSE IF t[Len(t)] = " " THEN Stripped(SubSeq(t, 1, Len(t) - 1))
  ELSE t

\* what C17 says the extraction of a comment is
ClaimedText(comment) ==
  IF comment.k \in {"absent", "null"} THEN <<>>
  ELSE IF comment.k = "string"
       THEN (IF comment.str = <<>> THEN <<>> ELSE <<comment.str>>)
  ELSE LET text == Stripped(Spaced(LeafFragments(NodesOf(comment.content))))
       IN IF text = <<>> THEN <<>> ELSE <<text>>

\* C17: the comment of every collected entry is never the empty string; it
\* is null for an absent or null comment, the string itself for a plain
\* string comment, and for a structured comment the leaf text fragments of
\* all its blocks in document order, joined by single spaces and trimmed, or
\* null when that leaves no text.
C17_CommentText ==
  \A i \in 1..Len(results) :
    /\ results[i].comment # <<<<>>>>
    /\ results[i].comment = ClaimedText(Upstream(results[i]).comment)

\* C18: a session exists only for a sign-in through Google with an email that
\* ends with @lamunpunit.com, so only such a visitor gets an answer other
\* than 401 Unauthorized.
C18_OnlyLamunpunit ==
  /\ session.present =>
       /\ session.provider = "google"
       /\ session.email[Len(session.email)] = "@lamunpunit.com"
  /\ (response # NoResponse /\ response.status # 401) => session.present

\* C19: a resolution returns from the cache only when the entry of its email
\* is less than 5 minutes (300000 ms) old; one that starts when the entry is
\* 5 minutes old or older, exactly 5 minutes included, issues a new identity
\* search, and when that search answers the entry holds the value the
\* resolution returns and the time the resolution started at.
C19_ExpiredEntryRefetched ==
  [][\A c \in 1..MaxCallers :
       /\ Starts(c) =>
            LET e == calls'[c].email
                entry == accountIdCache[e]
            IN /\ calls'[c].now = clock
               /\ calls'[c].pc = "returned" =>
                    entry.present /\ clock - entry.ts < 300000
               /\ (entry.present /\ clock - entry.ts >= 300000) =>
                    /\ calls'[c].pc = "await"
                    /\ userSearches'[e] = userSearches[e] + 1
       /\ (calls[c].pc = "await" /\ calls'[c].pc = "returned") =>
            accountIdCache'[calls[c].email] =
              [present |-> TRUE, value |-> calls'[c].ret, ts |-> calls[c].now]]_vars

\* an email resolved twice, the second time exactly 5 minutes after the entry
\* was written: two searches, and the entry carries the second start time
C19_Witness ==
  /\ calls[1].pc = "returned" /\ calls[2].pc = "returned"
  /\ calls[1].email = calls[2].email
  /\ calls[2].now - calls[1].now = 300000
  /\ userSearches[calls[1].email] = 2
  /\ accountIdCache[calls[1].email].ts = calls[2].now

\* C20: when the identity search of a resolution fails, the resolution ends
\* with the error and the cache and the search count stay as they are; a
\* resolution of that email that starts afterwards issues a new search,
\* unless the cache holds an entry for it less than 5 minutes old.
C20_FailureLeavesCache ==
  [][\A c \in 1..MaxCallers :
       /\ (calls[c].pc = "await" /\ calls'[c].pc # "returned") =>
            /\ calls'[c].pc \in {"await", "threw"}
            /\ calls'[c].pc = "threw" =>
                 accountIdCache' = accountIdCache /\ userSearches' = userSearches
       /\ (/\ Starts(c)
           /\ \E d \in 1..MaxCallers :
                calls[d].pc = "threw" /\ calls[d].email = calls'[c].email) =>
            LET e == calls'[c].email
                entry == accountIdCache[e]
            IN \/ entry.present /\ clock - entry.ts < 300000
               \/ /\ calls'[c].pc = "await"
                  /\ userSearches'[e] = userSearches[e] + 1]_vars

\* the search of a first resolution failed with nothing cached, and a later
\* resolution of the same email is waiting for a search of its own
C20_Witness ==
  /\ calls[1].pc = "threw" /\ calls[2].pc = "await"
  /\ calls[1].email = calls[2].email
  /\ calls[2].now > calls[1].now
  /\ ~accountIdCache[calls[1].email].present
  /\ userSearches[calls[1].email] = 2

\* the upstream worklogs, by position and index, that have a start time inside
\* the window and whose author is the resolved account, if one was resolved
Survivors ==
  {src \in InWindowSrcs :
     accountId # Null =>
       fetched[src[1] + 1].worklogs[src[2]].author = accountId}

\* the summary the issue search listed for a key
ListedSummary(key) == (CHOOSE issue \in IssueUniverse : issue.key = key).summary

\* C21: in a successful response every position of the issue list had its
\* worklogs fetched, and the entries are, one each and none twice, made from
\* the upstream worklogs of all positions that have a start time, pass the
\* author filter and start inside the window; each entry carries the key at the
\* position it was fetched for, that issue's summary and the upstream
\* worklog's time spent.
C21_EntriesAreSurvivors ==
  Succeeded =>
    /\ DOMAIN fetched = 1..Len(issueKeys)
    /\ \A p \in DOMAIN fetched : fetched[p].done
    /\ \A i, j \in 1..Len(response.worklogs) :
         i # j => response.worklogs[i].src # response.worklogs[j].src
    /\ ResponseSrcs = Survivors
    /\ \A i \in 1..Len(response.worklogs) :
         LET e == response.worklogs[i]
             up == Upstream(e)
         IN /\ e.issueKey = issueKeys[e.src[1] + 1]
            /\ e.summary = ListedSummary(e.issueKey)
            /\ e.timeSpentSeconds =
                 (IF up.timeSpentSeconds = <<>> THEN 0 ELSE up.timeSpentSeconds[1])
            /\ ISOToMs(e.startedISO) = up.started.ms

\* two workers pushed one entry each, the worker of the second position first,
\* and the response carries both, one per issue
C21_Witness ==
  /\ Succeeded
  /\ Len(issueKeys) = 2
  /\ Len(workers) = 2
  /\ Len(results) = 2
  /\ results[1].src[1] = 1
  /\ results[2].src[1] = 0
  /\ Len(response.worklogs) = 2
  /\ response.worklogs[1].issueKey # response.worklogs[2].issueKey

\* the workers that left the pool: out of their loop, or rejected
Settled == {w \in DOMAIN workers : workers[w].st \in {"exited", "threw"}}

\* lines 389-396 ran: the handler answered from results
Normalized == Succeeded \/ response = ThrownResponse("Invalid time value")

\* C22: when every awaited fetch is eventually answered or fails, a started
\* pool is eventually left by every worker and the handler eventually answers;
\* a worker leaves its loop only when idx has reached the number of issues;
\* and the handler normalizes results only when no fetch failed, none is in
\* flight and the fetch of every position has completed.
C22_PoolCompletes ==
  /\ (pc = "pool") ~> (pc = "done")
  /\ (pc = "pool") ~> (Settled = DOMAIN workers)
  /\ [](\A w \in DOMAIN workers :
          workers[w].st = "exited" => idx = Len(issueKeys))
  /\ [](Normalized =>
          /\ Threw = {}
          /\ InFlight = {}
          /\ FetchesInFlight = {}
          /\ DOMAIN fetched = 1..Len(issueKeys)
          /\ \A p \in DOMAIN fetched : fetched[p].done)

\* a pool over more issues than workers returned after a worker had gone
\* round its loop more than once, and the handler answered
C22_Witness ==
  /\ Succeeded
  /\ pc = "done"
  /\ Len(workers) = CONCURRENCY
  /\ Settled = DOMAIN workers
  /\ \E w \in DOMAIN workers : workers[w].current >= CONCURRENCY
  /\ idx = Len(issueKeys)
====
